---------------------------- MODULE Spec2Model ----------------------------
(***************************************************************************)
(* A model of kombu.compat: the carrot-compatible Publisher, Consumer and  *)
(* ConsumerSet adapters and the _iterconsume drain iterator.               *)
(*                                                                         *)
(* The adapters are driven by one client thread (the module is             *)
(* single-threaded).  Generators (iterqueue, iterconsume) are modelled as  *)
(* records holding the position of the generator body; one action          *)
(* advances a generator from one suspension point to the next.  The        *)
(* module is written for the interpreter of its time: a StopIteration      *)
(* raised inside a generator body ends the generator.                      *)
(*                                                                         *)
(* The broker side (channels, queues, the connection's event loop) and the *)
(* base classes messaging.Producer / messaging.Consumer are collaborators  *)
(* that kombu.compat only calls; the operators that stand for them are     *)
(* marked "collaborator" below.                                            *)
(***************************************************************************)
EXTENDS Integers, Sequences, FiniteSets, TLC

(***************************************************************************)
(* Bounds of the model.                                                    *)
(***************************************************************************)
MaxMsgs == 3
MaxLimit == 2
MaxCloses == 2
MaxGens == 1
MaxQueues == 4
MaxSteps == MaxLimit + 1
MaxEvents == MaxGens * MaxLimit + 1

(***************************************************************************)
(* Python values.  None as a message is 0 (messages are 1, 2, ...);        *)
(* limit=None is NoLimit.  The no_ack argument is "None", "True" or        *)
(* "False".                                                                *)
(***************************************************************************)
None == 0
NoLimit == -1
Limits == {NoLimit} \cup (0..MaxLimit)
TruthyUnlessNone(limit) == limit # NoLimit
Truthy(limit) == limit # NoLimit /\ limit # 0
Bool3(b) == IF b THEN "True" ELSE "False"

QueueNames == {"A", "B", "C"}
Channels == {"chOwn", "chGiven", "chCon", "chSet", "chNew", "chNew2"}
ReviveChannels == {"chNew", "chNew2"}
NoChannel == "None"

VARIABLES
    queue,      \* the ready messages of the queue the Consumer is bound to
    nextMsg,    \* id of the next message the broker accepts
    events,     \* events pending on the connection, oldest first
    nextEvent,  \* id of the next event to arrive
    closes,     \* per channel: the number of close() calls issued on it
    pub,        \* the Publisher
    con,        \* the Consumer
    cset,       \* the ConsumerSet
    iq,         \* the generator made by the last Consumer.iterqueue call
    gens,       \* the generators made by iterconsume calls, in call order
    waitRes,    \* the list wait() is building / has returned
    last        \* the last call the client made: what it was and how it ended

vars == <<queue, nextMsg, events, nextEvent, closes, pub, con, cset, iq, gens,
          waitRes, last>>

(***************************************************************************)
(* Collaborator: a channel accepts operations until it is closed.          *)
(***************************************************************************)
ChannelOpen(ch) == ch # NoChannel /\ closes[ch] = 0

ChannelClose(ch) == [closes EXCEPT ![ch] = @ + 1]

(***************************************************************************)
(* Collaborator: Queue.get, one non-blocking retrieval from the head of    *)
(* the queue; None when the queue is empty.                                *)
(***************************************************************************)
QueueGet(q) ==
    IF q = <<>> THEN [msg |-> None, rest |-> q]
                ELSE [msg |-> Head(q), rest |-> Tail(q)]

(***************************************************************************)
(* The record of the last call.  ret is the returned message (or count),   *)
(* err the error raised ("" when none), pre the queue before the call,     *)
(* cb the number of callback dispatches the call made, arg an argument of  *)
(* the call that the properties need ("" otherwise).                       *)
(***************************************************************************)
Call(op, ret, err, cb) ==
    [op |-> op, ret |-> ret, err |-> err, pre |-> queue, cb |-> cb,
     arg |-> ""]

NoCall ==
    [op |-> "", ret |-> None, err |-> "", pre |-> <<>>, cb |-> 0, arg |-> ""]

CallWith(op, ret, err, cb, arg) == [Call(op, ret, err, cb) EXCEPT !.arg = arg]

(***************************************************************************)
(* Consumer.fetch as a function of the state: the message returned, the    *)
(* error raised, the queue left behind, the callbacks dispatched.          *)
(***************************************************************************)
FetchTwice(no_ack, enable_callbacks) ==
    LET ack == IF no_ack = "None" THEN Bool3(con.no_ack) ELSE no_ack
        first == QueueGet(queue)
        got == QueueGet(first.rest)
    IN  IF ~ChannelOpen(con.channel)
        THEN [ret |-> None, err |-> "ChannelError", queue |-> queue,
              cb |-> 0, ack |-> ack]
        ELSE [ret |-> got.msg, err |-> "", queue |-> got.rest,
              cb |-> IF got.msg # None /\ enable_callbacks THEN 1 ELSE 0,
              ack |-> ack]

FetchAlwaysDispatches(no_ack, enable_callbacks) ==
    LET ack == IF no_ack = "None" THEN Bool3(con.no_ack) ELSE no_ack
        got == QueueGet(queue)
    IN  IF ~ChannelOpen(con.channel)
        THEN [ret |-> None, err |-> "ChannelError", queue |-> queue,
              cb |-> 0, ack |-> ack]
        ELSE [ret |-> got.msg, err |-> "", queue |-> got.rest,
              cb |-> IF got.msg # None THEN 1 ELSE 0, ack |-> ack]

ConsumerFetch(no_ack, enable_callbacks) ==
    LET ack == IF no_ack = "None" THEN Bool3(con.no_ack) ELSE no_ack
        got == QueueGet(queue)
    IN  IF ~ChannelOpen(con.channel)
        THEN [ret |-> None, err |-> "ChannelError", queue |-> queue,
              cb |-> 0, ack |-> ack]
        ELSE [ret |-> got.msg, err |-> "", queue |-> got.rest,
              cb |-> IF got.msg # None /\ enable_callbacks THEN 1 ELSE 0,
              ack |-> ack]

(***************************************************************************)
(* The configuration the constructors resolve.  An argument is "None" when *)
(* it is left out, else a string, or "True" or "False" for a flag.  The    *)
(* class attributes hold the defaults.                                     *)
(***************************************************************************)
StrArgs == {"None", "", "x"}
FlagArgs == {"None", "True", "False"}

PublisherDefaults ==
    [exchange |-> "", exchange_type |-> "direct", routing_key |-> "",
     durable |-> "True", auto_delete |-> "False"]

ConsumerDefaults ==
    [queue |-> "", exchange |-> "", routing_key |-> "",
     exchange_type |-> "direct", durable |-> "True", exclusive |-> "False",
     auto_delete |-> "False"]

NoPublisherArgs == [f \in DOMAIN PublisherDefaults |-> "None"]
NoConsumerArgs == [f \in DOMAIN ConsumerDefaults |-> "None"]

(* Python truth of an argument: None and the empty string are false. *)
Falsy(arg) == arg = "None" \/ arg = ""

(* self.x = x or self.x *)
OrDefaultNoneOnly(arg, default) == IF arg # "None" THEN arg ELSE default

OrDefault(arg, default) == IF Falsy(arg) THEN default ELSE arg

(* if x is not None: self.x = x *)
UnlessNone(arg, default) == IF arg # "None" THEN arg ELSE default

(* Publisher.__init__ and Consumer.__init__, the attributes they leave. *)
PublisherFields(args) ==
    [exchange |-> OrDefault(args.exchange, PublisherDefaults.exchange),
     exchange_type |-> OrDefault(args.exchange_type,
                                 PublisherDefaults.exchange_type),
     routing_key |-> OrDefault(args.routing_key,
                               PublisherDefaults.routing_key),
     auto_delete |-> UnlessNone(args.auto_delete,
                                PublisherDefaults.auto_delete),
     durable |-> UnlessNone(args.durable, PublisherDefaults.durable)]

ConsumerFields(args) ==
    [durable |-> UnlessNone(args.durable, ConsumerDefaults.durable),
     exclusive |-> UnlessNone(args.exclusive, ConsumerDefaults.exclusive),
     auto_delete |-> UnlessNone(args.auto_delete,
                                ConsumerDefaults.auto_delete),
     queue |-> OrDefault(args.queue, ConsumerDefaults.queue),
     exchange |-> OrDefault(args.exchange, ConsumerDefaults.exchange),
     exchange_type |-> OrDefault(args.exchange_type,
                                 ConsumerDefaults.exchange_type),
     routing_key |-> OrDefault(args.routing_key,
                               ConsumerDefaults.routing_key)]

(***************************************************************************)
(* Publisher.__init__ (the channel part): a supplied channel is used as is *)
(* and marked as provided; otherwise the base producer works on the        *)
(* connection's own channel.  History: args are the arguments given.       *)
(***************************************************************************)
PublisherInit(channel) ==
    IF channel # NoChannel
    THEN [channel |-> channel, provided |-> TRUE, closed |-> FALSE,
          args |-> NoPublisherArgs, fields |-> PublisherFields(NoPublisherArgs)]
    ELSE [channel |-> "chOwn", provided |-> FALSE, closed |-> FALSE,
          args |-> NoPublisherArgs, fields |-> PublisherFields(NoPublisherArgs)]

PublisherNew(channel, args) ==
    [PublisherInit(channel) EXCEPT !.args = args,
                                   !.fields = PublisherFields(args)]

(***************************************************************************)
(* Consumer.__init__ (the channel part): the Consumer opens a channel of   *)
(* its own from the connection and hands it to the base consumer.  tags is *)
(* the number of consume() registrations currently active.  History:       *)
(* given is the channel most recently handed to the adapter (the one it    *)
(* opened, until a revive), steps the steps of its latest close() and      *)
(* cancelled the number of registrations that close() cancelled, iters the *)
(* number of its iterconsume generators that have been advanced.           *)
(***************************************************************************)
ConsumerInit(no_ack) ==
    [backend |-> "chCon", channel |-> "chCon", closed |-> FALSE,
     no_ack |-> no_ack, tags |-> 0, given |-> "chCon", steps |-> <<>>,
     cancelled |-> 0, iters |-> 0, args |-> NoConsumerArgs,
     fields |-> ConsumerFields(NoConsumerArgs)]

ConsumerNew(no_ack, args) ==
    [ConsumerInit(no_ack) EXCEPT !.args = args,
                                 !.fields = ConsumerFields(args)]

(***************************************************************************)
(* Generators of Consumer.iterqueue.  pc: "none" (no generator), "new"     *)
(* (made, never advanced), "yielded" (suspended at the yield), "done".     *)
(* n is items_since_start, yielded the items handed to the caller.         *)
(* History: base is the id of the last message that had left or never      *)
(* entered the queue when the generator was made, empties counts this      *)
(* generator's fetches that returned None, fetches all its fetches,        *)
(* lastItem is the item of its latest fetch, err the error that ended it,  *)
(* via the call that made it.                                              *)
(***************************************************************************)
NoIterQueue ==
    [pc |-> "none", limit |-> NoLimit, infinite |-> FALSE, n |-> 0,
     yielded |-> <<>>, base |-> 0, empties |-> 0, fetches |-> 0,
     lastItem |-> None, err |-> "", via |-> ""]

NewIterQueue(limit, infinite, via) ==
    [NoIterQueue EXCEPT !.pc = "new", !.limit = limit, !.infinite = infinite,
                        !.base = nextMsg - 1 - Len(queue), !.via = via]

(***************************************************************************)
(* The test that ends iterqueue, made after the fetch of step n.           *)
(***************************************************************************)
IterQueueStopsLate(g, n, item) ==
    (~g.infinite /\ item = None) \/ (Truthy(g.limit) /\ n > g.limit)

IterQueueStopsOnEmpty(g, n, item) ==
    item = None \/ (Truthy(g.limit) /\ n >= g.limit)

IterQueueStops(g, n, item) ==
    (~g.infinite /\ item = None) \/ (Truthy(g.limit) /\ n >= g.limit)

-----------------------------------------------------------------------------
(***************************************************************************)
(* The client's calls.  While a generator of iterconsume is blocked in     *)
(* drain_events the client is inside next(), and while wait() is building  *)
(* its list the client is inside wait(): it can make no other call.        *)
(***************************************************************************)
Busy(i) == gens[i].pc = "draining" \/ (gens[i].inWait /\ gens[i].pc # "done")

Blocked == \E i \in 1..Len(gens) : Busy(i)

(* Publisher.send -> Producer.publish (collaborator): the message reaches  *)
(* the queue when the channel is open and the routing key matches.         *)
Send(match) ==
    /\ ~Blocked
    /\ nextMsg <= MaxMsgs
    /\ IF ~ChannelOpen(pub.channel)
       THEN /\ last' = Call("send", None, "ChannelError", 0)
            /\ UNCHANGED <<queue, nextMsg>>
       ELSE IF match
            THEN /\ queue' = Append(queue, nextMsg)
                 /\ nextMsg' = nextMsg + 1
                 /\ last' = Call("send", nextMsg, "", 0)
            ELSE /\ last' = Call("send", None, "", 0)
                 /\ UNCHANGED <<queue, nextMsg>>
    /\ UNCHANGED <<events, nextEvent, closes, pub, con, cset, iq, gens, waitRes>>

(* Consumer.fetch *)
Fetch(no_ack, enable_callbacks) ==
    /\ ~Blocked
    /\ LET r == ConsumerFetch(no_ack, enable_callbacks)
       IN  /\ queue' = r.queue
           /\ last' = CallWith("fetch", r.ret, r.err, r.cb,
                               IF enable_callbacks THEN "callbacks" ELSE "")
    /\ UNCHANGED <<nextMsg, events, nextEvent, closes, pub, con, cset, iq, gens,
                   waitRes>>

(* Consumer.process_next *)
ProcessNext ==
    /\ ~Blocked
    /\ last' = Call("process_next", None, "NotImplementedError", 0)
    /\ UNCHANGED <<queue, nextMsg, events, nextEvent, closes, pub, con, cset, iq,
                   gens, waitRes>>

(* Consumer.purge (collaborator): drops every ready message of the bound   *)
(* queue and returns how many there were.                                  *)
Purge ==
    IF ChannelOpen(con.channel)
    THEN [ret |-> Len(queue), err |-> "", queue |-> <<>>]
    ELSE [ret |-> 0, err |-> "ChannelError", queue |-> queue]

(* Consumer.discard_all *)
DiscardAllIgnoresFilter(filterfunc) ==
    /\ ~Blocked
    /\ LET r == Purge
       IN  /\ queue' = r.queue
           /\ last' = Call(IF filterfunc THEN "discard_all_filter"
                                          ELSE "discard_all", r.ret, r.err, 0)
    /\ UNCHANGED <<nextMsg, events, nextEvent, closes, pub, con, cset, iq, gens,
                   waitRes>>

DiscardAll(filterfunc) ==
    /\ ~Blocked
    /\ IF filterfunc
       THEN /\ last' = Call("discard_all_filter", None, "NotImplementedError", 0)
            /\ UNCHANGED queue
       ELSE LET r == Purge
            IN  /\ queue' = r.queue
                /\ last' = Call("discard_all", r.ret, r.err, 0)
    /\ UNCHANGED <<nextMsg, events, nextEvent, closes, pub, con, cset, iq, gens,
                   waitRes>>

(* Consumer.iterqueue: calling it only makes the generator. *)
IterQueue(limit, infinite) ==
    /\ ~Blocked
    /\ iq' = NewIterQueue(limit, infinite, "iterqueue")
    /\ last' = Call("iterqueue", None, "", 0)
    /\ UNCHANGED <<queue, nextMsg, events, nextEvent, closes, pub, con, cset,
                   gens, waitRes>>

(* Consumer.__iter__ *)
Iter ==
    /\ ~Blocked
    /\ iq' = NewIterQueue(NoLimit, TRUE, "__iter__")
    /\ last' = Call("__iter__", None, "", 0)
    /\ UNCHANGED <<queue, nextMsg, events, nextEvent, closes, pub, con, cset,
                   gens, waitRes>>

(* next() on the iterqueue generator: one pass of the loop body, from the  *)
(* fetch to the yield or to the end of the generator.  An error of the     *)
(* fetch leaves the generator finished and reaches the caller.             *)
(* What the generators raise to end: raised inside a generator body,      *)
(* StopIteration ends the generator as exhausted.                          *)
StopSignalIsError == "RuntimeError"

StopSignal == "StopIteration"

(* The fetch of pass n of the iterqueue loop: it comes first in the loop   *)
(* body, before the test.                                                  *)
IterQueueFetchAfterTest(g, n) ==
    IF Truthy(g.limit) /\ n >= g.limit
    THEN [ret |-> None, err |-> "", queue |-> queue, cb |-> 0,
          ack |-> Bool3(con.no_ack)]
    ELSE ConsumerFetch("None", FALSE)

IterQueueFetch(g, n) == ConsumerFetch("None", FALSE)

IterQueueNext ==
    /\ ~Blocked
    /\ iq.pc \in {"new", "yielded"}
    /\ LET n == IF iq.pc = "new" THEN 0 ELSE iq.n + 1
           r == IterQueueFetch(iq, n)
           g == [iq EXCEPT !.n = n, !.fetches = @ + 1, !.lastItem = r.ret,
                           !.empties = IF r.ret = None /\ r.err = ""
                                       THEN @ + 1 ELSE @]
       IN  /\ n <= MaxSteps
           /\ queue' = r.queue
           /\ IF r.err # ""
              THEN /\ iq' = [g EXCEPT !.pc = "done", !.err = r.err]
                   /\ last' = Call("next", None, r.err, 0)
              ELSE IF IterQueueStops(g, n, r.ret)
                   THEN /\ iq' = [g EXCEPT !.pc = "done"]
                        /\ last' = Call("next", None, StopSignal, 0)
                   ELSE /\ iq' = [g EXCEPT !.pc = "yielded",
                                           !.yielded = Append(@, r.ret)]
                        /\ last' = Call("next", r.ret, "", 0)
    /\ UNCHANGED <<nextMsg, events, nextEvent, closes, pub, con, cset, gens,
                   waitRes>>

-----------------------------------------------------------------------------
(***************************************************************************)
(* Publisher: close and scope exit.                                        *)
(***************************************************************************)

(* Collaborator: Producer.close, which releases nothing at this layer. *)
ProducerClose(p) == p

(* The channels' close counts after Publisher.close: the channel is closed *)
(* when there is one and the caller did not supply it.                     *)
PublisherClosesAnyChannel ==
    IF pub.channel # NoChannel THEN ChannelClose(pub.channel) ELSE closes

PublisherCloses ==
    IF pub.channel # NoChannel /\ ~pub.provided
    THEN ChannelClose(pub.channel)
    ELSE closes

(* Publisher.close *)
PublisherClose ==
    /\ ~Blocked
    /\ closes[pub.channel] < MaxCloses
    /\ closes' = PublisherCloses
    /\ pub' = [ProducerClose(pub) EXCEPT !.closed = TRUE]
    /\ last' = Call("Publisher.close", None, "", 0)
    /\ UNCHANGED <<queue, nextMsg, events, nextEvent, con, cset, iq, gens,
                   waitRes>>

(* What __exit__ hands back to the with statement: a true value would     *)
(* suppress the error of the scope's body.  Both __exit__ methods end      *)
(* without a return statement.                                             *)
ExitSwallows == TRUE

ExitSuppresses == FALSE

(* What the caller of the scope sees: the error of closing, else the error *)
(* of the body unless __exit__ suppressed it.                              *)
ScopeError(raised, closeErr) ==
    IF closeErr # "" THEN closeErr
    ELSE IF raised /\ ~ExitSuppresses THEN "BodyError" ELSE ""

ScopeArg(raised) == IF raised THEN "raised" ELSE "completed"

(* Publisher.__exit__: close(). *)
PublisherExit(raised) ==
    /\ ~Blocked
    /\ closes[pub.channel] < MaxCloses
    /\ closes' = PublisherCloses
    /\ pub' = [ProducerClose(pub) EXCEPT !.closed = TRUE]
    /\ last' = CallWith("Publisher.__exit__", None, ScopeError(raised, ""),
                        0, ScopeArg(raised))
    /\ UNCHANGED <<queue, nextMsg, events, nextEvent, con, cset, iq, gens,
                   waitRes>>

(***************************************************************************)
(* Consumer: close.  cancel() (collaborator) cancels every active          *)
(* registration, which needs the channel only when there is one to cancel. *)
(***************************************************************************)
(* Collaborator: messaging.Consumer.cancel on adapter c, the channels'     *)
(* close counts being cl.                                                  *)
Cancel(c, cl) ==
    IF c.tags > 0 /\ cl[c.channel] # 0
    THEN [c |-> c, err |-> "ChannelError"]
    ELSE [c |-> [c EXCEPT !.tags = 0, !.cancelled = c.tags], err |-> ""]

(* Collaborator: messaging.Consumer.consume called by the client itself on *)
(* the Consumer: one more registration on its channel.                     *)
ConsumerConsume ==
    /\ ~Blocked
    /\ con.tags < MaxGens + 1
    /\ IF ChannelOpen(con.channel)
       THEN /\ con' = [con EXCEPT !.tags = @ + 1]
            /\ last' = Call("Consumer.consume", None, "", 0)
       ELSE /\ last' = Call("Consumer.consume", None, "ChannelError", 0)
            /\ UNCHANGED con
    /\ UNCHANGED <<queue, nextMsg, events, nextEvent, closes, pub, cset, iq,
                   gens, waitRes>>

(* The body of Consumer.close, statement by statement: what it leaves in   *)
(* the Consumer and in the channels, and the error that cut it short.      *)
ConsumerCloseChannelFirst ==
    LET closed == [closes EXCEPT ![con.backend] = @ + 1]
        cancelled == Cancel(con, closed)
    IN  IF cancelled.err # ""
        THEN [con |-> [con EXCEPT !.steps = <<"channel.close", "cancel">>],
              closes |-> closed, err |-> cancelled.err]
        ELSE [con |-> [cancelled.c EXCEPT
                          !.closed = TRUE,
                          !.steps = <<"channel.close", "cancel", "_closed">>],
              closes |-> closed, err |-> ""]

ConsumerCloseBody ==
    LET cancelled == Cancel(con, closes)
    IN  IF cancelled.err # ""
        THEN [con |-> [con EXCEPT !.steps = <<"cancel">>],
              closes |-> closes, err |-> cancelled.err]
        ELSE [con |-> [cancelled.c EXCEPT
                          !.closed = TRUE,
                          !.steps = <<"cancel", "channel.close", "_closed">>],
              closes |-> [closes EXCEPT ![con.backend] = @ + 1],
              err |-> ""]

(* Consumer.close *)
ConsumerClose ==
    /\ ~Blocked
    /\ closes[con.backend] < MaxCloses
    /\ LET body == ConsumerCloseBody
       IN  /\ con' = body.con
           /\ closes' = body.closes
           /\ last' = Call("Consumer.close", None, body.err, 0)
    /\ UNCHANGED <<queue, nextMsg, events, nextEvent, pub, cset, iq, gens,
                   waitRes>>

(* Consumer.__exit__: close(). *)
ConsumerExit(raised) ==
    /\ ~Blocked
    /\ closes[con.backend] < MaxCloses
    /\ LET body == ConsumerCloseBody
       IN  /\ con' = body.con
           /\ closes' = body.closes
           /\ last' = CallWith("Consumer.__exit__", None,
                               ScopeError(raised, body.err), 0,
                               ScopeArg(raised))
    /\ UNCHANGED <<queue, nextMsg, events, nextEvent, pub, cset, iq, gens,
                   waitRes>>

(***************************************************************************)
(* Consumer: revive.  The base hook (collaborator) rebinds the consumer to *)
(* the channel: the registrations made on the old channel are forgotten    *)
(* and the queues are declared again, which a closed channel rejects.      *)
(***************************************************************************)
BaseRevive(c, channel) ==
    [c |-> [c EXCEPT !.channel = channel, !.tags = 0],
     err |-> IF closes[channel] # 0 THEN "ChannelError" ELSE ""]

ConsumerReviveKeepsBackend(channel) ==
    LET r == BaseRevive([con EXCEPT !.given = channel], channel)
    IN  /\ con' = r.c
        /\ last' = CallWith("Consumer.revive", None, r.err, 0, channel)

ConsumerReviveBody(channel) ==
    LET r == BaseRevive([con EXCEPT !.backend = channel, !.given = channel],
                        channel)
    IN  /\ con' = r.c
        /\ last' = CallWith("Consumer.revive", None, r.err, 0, channel)

(* Consumer.revive *)
ConsumerRevive(channel) ==
    /\ ~Blocked
    /\ ConsumerReviveBody(channel)
    /\ UNCHANGED <<queue, nextMsg, events, nextEvent, closes, pub, cset, iq,
                   gens, waitRes>>

-----------------------------------------------------------------------------
(***************************************************************************)
(* _iterconsume.  A generator of it is a record: owner is the adapter it   *)
(* was made for, limit and no_ack its arguments, iteration the loop        *)
(* counter, out the results it has yielded.  pc: "new" (made, never        *)
(* advanced), "draining" (inside connection.drain_events()), "yielded"     *)
(* (suspended at the yield), "done".  inWait marks the generator that      *)
(* wait() is turning into a list.  History: consumes and drains count the  *)
(* consume() and drain_events() calls of this generator, regAt is the      *)
(* number of drains it had made when it called consume(), err the error    *)
(* that ended it, ack the acknowledgement policy its consume() registered  *)
(* with ("" before), omitted tells that the caller of iterconsume gave no  *)
(* no_ack argument.                                                        *)
(***************************************************************************)
NewIterConsume(owner, limit, no_ack, inWait) ==
    [owner |-> owner, limit |-> limit, no_ack |-> no_ack, pc |-> "new",
     iteration |-> 0, consumes |-> 0, drains |-> 0, regAt |-> 0,
     out |-> <<>>, inWait |-> inWait, err |-> "", ack |-> "",
     omitted |-> FALSE]

(* A call that leaves no_ack out is a call with the default of the         *)
(* signature.                                                              *)
Omitted == "Omitted"

ConsumerNoAckDefault == "None"

ConsumerSetNoAckDefault == "False"

NoAckOr(no_ack, default) == IF no_ack = Omitted THEN default ELSE no_ack

(* Calling the generator function: the call makes the generator and runs   *)
(* nothing of its body.                                                    *)
IterConsumeCallEager(g) == [g EXCEPT !.consumes = 1]

IterConsumeCall(g) == g

(* Collaborator: messaging.Consumer.consume(no_ack) registers with the     *)
(* policy it is given, and with the instance's own when given None.        *)
ConsumeAck(policy, no_ack) == IF no_ack = "None" THEN Bool3(policy) ELSE no_ack

OwnerPolicy(owner) == IF owner = "Consumer" THEN con.no_ack ELSE cset.no_ack

OwnerIters(owner) == IF owner = "Consumer" THEN con.iters ELSE cset.iters

(* Collaborator: the built-in list(), which takes StopIteration from next  *)
(* as the end and lets any other error through.                            *)
ListError(err) == IF err = "StopIteration" THEN "" ELSE err

OwnerChannel(owner) == IF owner = "Consumer" THEN con.channel ELSE cset.channel

(* The test at the head of the loop body. *)
IterConsumeEndsLate(limit, iteration) == Truthy(limit) /\ iteration > limit

IterConsumeEndsEarly(limit, iteration) ==
    Truthy(limit) /\ iteration + 1 >= limit

IterConsumeEnds(limit, iteration) == Truthy(limit) /\ iteration >= limit

(* Consumer.iterconsume *)
ConsumerIterConsume(limit, no_ack) ==
    /\ ~Blocked
    /\ Len(gens) < MaxGens
    /\ gens' = Append(gens, IterConsumeCall(
                  [NewIterConsume("Consumer", limit,
                                  NoAckOr(no_ack, ConsumerNoAckDefault), FALSE)
                   EXCEPT !.omitted = (no_ack = Omitted)]))
    /\ last' = Call("iterconsume", None, "", 0)
    /\ UNCHANGED <<queue, nextMsg, events, nextEvent, closes, pub, con, cset,
                   iq, waitRes>>

(* ConsumerSet.iterconsume *)
ConsumerSetIterConsume(limit, no_ack) ==
    /\ ~Blocked
    /\ Len(gens) < MaxGens
    /\ gens' = Append(gens, IterConsumeCall(
                  [NewIterConsume("ConsumerSet", limit,
                                  NoAckOr(no_ack, ConsumerSetNoAckDefault),
                                  FALSE)
                   EXCEPT !.omitted = (no_ack = Omitted)]))
    /\ last' = Call("iterconsume", None, "", 0)
    /\ UNCHANGED <<queue, nextMsg, events, nextEvent, closes, pub, con, cset,
                   iq, waitRes>>

(* Consumer.wait, the call: it = self.iterconsume(limit), then list(it)    *)
(* advances the generator until it ends.                                   *)
Wait(limit) ==
    /\ ~Blocked
    /\ Len(gens) < MaxGens
    /\ gens' = Append(gens, IterConsumeCall(
                  [NewIterConsume("Consumer", limit, ConsumerNoAckDefault, TRUE)
                   EXCEPT !.omitted = TRUE]))
    /\ waitRes' = <<>>
    /\ last' = Call("wait", None, "running", 0)
    /\ UNCHANGED <<queue, nextMsg, events, nextEvent, closes, pub, con, cset,
                   iq>>

(* next() on generator i, up to the call of drain_events or to the end of  *)
(* the generator.  The first next() runs consumer.consume(no_ack=no_ack)   *)
(* (collaborator: it registers the consumer on its channel).               *)
Advance(i) ==
    /\ i \in 1..Len(gens)
    /\ gens[i].pc \in {"new", "yielded"}
    /\ \A j \in 1..Len(gens) : j # i => ~Busy(j)
    /\ LET g == gens[i]
           first == g.pc = "new"
           failed == first /\ ~ChannelOpen(OwnerChannel(g.owner))
           iteration == IF first THEN 0 ELSE g.iteration + 1
           g1 == IF first /\ ~failed
                 THEN [g EXCEPT !.consumes = @ + 1, !.regAt = g.drains,
                                !.ack = ConsumeAck(OwnerPolicy(g.owner),
                                                   g.no_ack)]
                 ELSE g
           ends == failed \/ IterConsumeEnds(g.limit, iteration)
           g2 == [g1 EXCEPT !.iteration = iteration,
                            !.pc = IF ends THEN "done" ELSE "draining",
                            !.err = IF failed THEN "ChannelError" ELSE ""]
           err == IF failed THEN "ChannelError"
                  ELSE IF ends THEN StopSignal ELSE ""
       IN  /\ iteration <= MaxLimit
           /\ first => OwnerIters(g.owner) <= MaxGens
           /\ gens' = [gens EXCEPT ![i] = g2]
           /\ IF first /\ ~failed
              THEN IF g.owner = "Consumer"
                   THEN /\ con' = [con EXCEPT !.tags = @ + 1,
                                             !.iters = @ + 1]
                        /\ UNCHANGED cset
                   ELSE /\ cset' = [cset EXCEPT !.tags = @ + 1,
                                               !.iters = @ + 1]
                        /\ UNCHANGED con
              ELSE UNCHANGED <<con, cset>>
           /\ IF g.inWait
              THEN IF ends
                   THEN /\ waitRes' = IF ListError(err) = "" THEN g.out
                                      ELSE <<>>
                        /\ last' = Call("wait", None, ListError(err), 0)
                   ELSE UNCHANGED <<waitRes, last>>
              ELSE /\ UNCHANGED waitRes
                   /\ IF ends THEN last' = Call("next", None, err, 0)
                              ELSE UNCHANGED last
    /\ UNCHANGED <<queue, nextMsg, events, nextEvent, closes, pub, iq>>

(* connection.drain_events() (collaborator) returns with the oldest        *)
(* pending event; the generator yields what it returned.                   *)
Drain(i) ==
    /\ i \in 1..Len(gens)
    /\ gens[i].pc = "draining"
    /\ events # <<>>
    /\ events' = Tail(events)
    /\ gens' = [gens EXCEPT ![i] = [@ EXCEPT !.pc = "yielded",
                                             !.drains = @ + 1,
                                             !.out = Append(@, Head(events))]]
    /\ IF gens[i].inWait THEN UNCHANGED last
                         ELSE last' = Call("next", Head(events), "", 0)
    /\ UNCHANGED <<queue, nextMsg, nextEvent, closes, pub, con, cset, iq,
                   waitRes>>

(* The caller lets go of generator i: nothing of its body runs any more,   *)
(* and what it registered stays registered.                                *)
Discard(i) ==
    /\ i \in 1..Len(gens)
    /\ ~Blocked
    /\ gens' = SubSeq(gens, 1, i - 1) \o SubSeq(gens, i + 1, Len(gens))
    /\ UNCHANGED <<queue, nextMsg, events, nextEvent, closes, pub, con, cset,
                   iq, waitRes, last>>

(* The broker delivers an event to the connection. *)
EventArrives ==
    /\ nextEvent <= MaxEvents
    /\ events' = Append(events, nextEvent)
    /\ nextEvent' = nextEvent + 1
    /\ UNCHANGED <<queue, nextMsg, closes, pub, con, cset, iq, gens, waitRes,
                   last>>

-----------------------------------------------------------------------------
(***************************************************************************)
(* ConsumerSet.  A queue descriptor is a record of its name and of where   *)
(* it came from; a consumer handed to the set is the list of its queues;   *)
(* from_dict is given as the list of its keys in the order items() yields  *)
(* them.                                                                   *)
(***************************************************************************)
ConsumerQueues(names) ==
    [k \in 1..Len(names) |-> [name |-> names[k], origin |-> "consumer"]]

(* Collaborator: common.entry_to_queue builds a queue descriptor from a    *)
(* name and its options.                                                   *)
EntryToQueue(name) == [name |-> name, origin |-> "entry"]

RECURSIVE ExtendAll(_, _)
ExtendAll(queues, consumers) ==
    IF consumers = <<>> THEN queues
    ELSE ExtendAll(queues \o ConsumerQueues(Head(consumers)), Tail(consumers))

(* Collaborator: Consumer.add_queue appends the queue to the collection. *)
AddQueue(queues, q) == Append(queues, q)

RECURSIVE AddAll(_, _)
AddAll(queues, more) ==
    IF more = <<>> THEN queues
    ELSE AddAll(AddQueue(queues, Head(more)), Tail(more))

RECURSIVE AppendEntries(_, _)
AppendEntries(queues, keys) ==
    IF keys = <<>> THEN queues
    ELSE AppendEntries(Append(queues, EntryToQueue(Head(keys))), Tail(keys))

(* The queue list ConsumerSet.__init__ hands to the base consumer. *)
ConsumerSetQueuesDictFirst(consumers, from_dict) ==
    ExtendAll(AppendEntries(<<>>, from_dict), consumers)

ConsumerSetQueues(consumers, from_dict) ==
    AppendEntries(ExtendAll(<<>>, consumers), from_dict)

(* ConsumerSet.__init__.  History: calls lists, call by call, the names    *)
(* each source brought in; closed tells that close() has run; given and   *)
(* iters are as in the Consumer.  no_ack is the policy the base class      *)
(* keeps, false unless the constructor is given another.                   *)
ConsumerSetInit(consumers, from_dict) ==
    [backend |-> "chSet", channel |-> "chSet", tags |-> 0,
     closed |-> FALSE, queues |-> ConsumerSetQueues(consumers, from_dict),
     calls |-> consumers \o <<from_dict>>, no_ack |-> FALSE,
     given |-> "chSet", iters |-> 0]

(* The queues ConsumerSet.add_consumer leaves in the set. *)
AddFirstQueueOnly(queues, names) ==
    IF names = <<>> THEN queues
    ELSE AddQueue(queues, ConsumerQueues(names)[1])

AddConsumerQueues(queues, names) == AddAll(queues, ConsumerQueues(names))

(* ConsumerSet.add_consumer *)
AddConsumer(names) ==
    /\ ~Blocked
    /\ Len(cset.queues) + Len(names) <= MaxQueues
    /\ cset' = [cset EXCEPT !.queues = AddConsumerQueues(@, names),
                            !.calls = Append(@, names)]
    /\ last' = Call("add_consumer", None, "", 0)
    /\ UNCHANGED <<queue, nextMsg, events, nextEvent, closes, pub, con, iq,
                   gens, waitRes>>

(* ConsumerSet.add_consumer_from_dict *)
AddConsumerFromDict(name) ==
    /\ ~Blocked
    /\ Len(cset.queues) < MaxQueues
    /\ cset' = [cset EXCEPT !.queues = AddQueue(@, EntryToQueue(name)),
                            !.calls = Append(@, <<name>>)]
    /\ last' = Call("add_consumer_from_dict", None, "", 0)
    /\ UNCHANGED <<queue, nextMsg, events, nextEvent, closes, pub, con, iq,
                   gens, waitRes>>

(* ConsumerSet.close: cancel(), then the channel is closed. *)
ConsumerSetClose ==
    /\ ~Blocked
    /\ closes[cset.channel] < MaxCloses
    /\ IF cset.tags > 0 /\ ~ChannelOpen(cset.channel)
       THEN /\ last' = Call("ConsumerSet.close", None, "ChannelError", 0)
            /\ UNCHANGED <<cset, closes>>
       ELSE /\ closes' = ChannelClose(cset.channel)
            /\ cset' = [cset EXCEPT !.tags = 0, !.closed = TRUE]
            /\ last' = Call("ConsumerSet.close", None, "", 0)
    /\ UNCHANGED <<queue, nextMsg, events, nextEvent, pub, con, iq, gens,
                   waitRes>>

(* Collaborator: messaging.Consumer.consume called on the ConsumerSet. *)
ConsumerSetConsume ==
    /\ ~Blocked
    /\ cset.tags < MaxGens + 1
    /\ IF ChannelOpen(cset.channel)
       THEN /\ cset' = [cset EXCEPT !.tags = @ + 1]
            /\ last' = Call("ConsumerSet.consume", None, "", 0)
       ELSE /\ last' = Call("ConsumerSet.consume", None, "ChannelError", 0)
            /\ UNCHANGED cset
    /\ UNCHANGED <<queue, nextMsg, events, nextEvent, closes, pub, con, iq,
                   gens, waitRes>>

(* ConsumerSet.revive *)
ConsumerSetRevive(channel) ==
    /\ ~Blocked
    /\ LET r == BaseRevive([cset EXCEPT !.backend = channel,
                                        !.given = channel], channel)
       IN  /\ cset' = r.c
           /\ last' = CallWith("ConsumerSet.revive", None, r.err, 0, channel)
    /\ UNCHANGED <<queue, nextMsg, events, nextEvent, closes, pub, con, iq,
                   gens, waitRes>>

-----------------------------------------------------------------------------
(***************************************************************************)
(* The state after construction, and the specifications.                   *)
(***************************************************************************)
ConsumerLists == {<<"A">>, <<"B">>, <<"A", "B">>}
ConsumerArgs ==
    {<<>>} \cup {<<c>> : c \in ConsumerLists}
           \cup {<<c, d>> : c \in ConsumerLists, d \in ConsumerLists}
DictArgs == {<<>>, <<"C">>, <<"C", "A">>, <<"B", "C">>}
NoAckArgs == {"None", "True", "False"}

InitWith(channel, no_ack, consumers, from_dict) ==
    /\ queue = <<>>
    /\ nextMsg = 1
    /\ events = <<>>
    /\ nextEvent = 1
    /\ closes = [c \in Channels |-> 0]
    /\ pub = PublisherInit(channel)
    /\ con = ConsumerInit(no_ack)
    /\ cset = ConsumerSetInit(consumers, from_dict)
    /\ iq = NoIterQueue
    /\ gens = <<>>
    /\ waitRes = <<>>
    /\ last = NoCall

(* The same with the configuration arguments of the Publisher and of the   *)
(* Consumer, and the no_ack argument of the ConsumerSet.                   *)
InitArgs(channel, pargs, no_ack, cargs, set_no_ack) ==
    /\ queue = <<>>
    /\ nextMsg = 1
    /\ events = <<>>
    /\ nextEvent = 1
    /\ closes = [c \in Channels |-> 0]
    /\ pub = PublisherNew(channel, pargs)
    /\ con = ConsumerNew(no_ack, cargs)
    /\ cset = [ConsumerSetInit(<<<<"A">>, <<"B">>>>, <<>>)
               EXCEPT !.no_ack = set_no_ack]
    /\ iq = NoIterQueue
    /\ gens = <<>>
    /\ waitRes = <<>>
    /\ last = NoCall

Init ==
    \E channel \in {NoChannel, "chGiven"}, no_ack \in BOOLEAN,
       consumers \in ConsumerArgs, from_dict \in DictArgs :
        InitWith(channel, no_ack, consumers, from_dict)

Next ==
    \/ \E match \in BOOLEAN : Send(match)
    \/ \E no_ack \in NoAckArgs, cb \in BOOLEAN : Fetch(no_ack, cb)
    \/ ProcessNext
    \/ \E filterfunc \in BOOLEAN : DiscardAll(filterfunc)
    \/ \E limit \in Limits, infinite \in BOOLEAN : IterQueue(limit, infinite)
    \/ Iter
    \/ IterQueueNext
    \/ PublisherClose
    \/ \E raised \in BOOLEAN : PublisherExit(raised)
    \/ ConsumerClose
    \/ ConsumerSetClose
    \/ \E limit \in Limits, no_ack \in NoAckArgs :
          ConsumerIterConsume(limit, no_ack)
    \/ \E limit \in Limits, no_ack \in NoAckArgs :
          ConsumerSetIterConsume(limit, no_ack)
    \/ \E limit \in Limits : Wait(limit)
    \/ \E i \in 1..MaxGens : Advance(i)
    \/ \E i \in 1..MaxGens : Drain(i)
    \/ EventArrives
    \/ \E names \in ConsumerLists : AddConsumer(names)
    \/ \E name \in QueueNames : AddConsumerFromDict(name)
    \/ \E raised \in BOOLEAN : ConsumerExit(raised)
    \/ \E channel \in ReviveChannels : ConsumerRevive(channel)
    \/ \E channel \in ReviveChannels : ConsumerSetRevive(channel)
    \/ \E i \in 1..MaxGens : Discard(i)
    \/ ConsumerConsume
    \/ ConsumerSetConsume

Spec == Init /\ [][Next]_vars

(* Pull-mode consumption: one Consumer on a queue a Publisher feeds. *)
InitPull == \E no_ack \in BOOLEAN : InitWith(NoChannel, no_ack, <<>>, <<>>)

NextPull ==
    \/ \E match \in BOOLEAN : Send(match)
    \/ \E no_ack \in NoAckArgs, cb \in BOOLEAN : Fetch(no_ack, cb)
    \/ ProcessNext
    \/ \E filterfunc \in BOOLEAN : DiscardAll(filterfunc)
    \/ \E limit \in Limits, infinite \in BOOLEAN : IterQueue(limit, infinite)
    \/ Iter
    \/ IterQueueNext

SpecPull == InitPull /\ [][NextPull]_vars

(* The drain loop: iterconsume and wait over a connection that receives    *)
(* events.                                                                 *)
InitDrain == InitWith(NoChannel, FALSE, <<<<"A">>, <<"B">>>>, <<>>)

NextDrain ==
    \/ \E limit \in Limits, no_ack \in NoAckArgs :
          ConsumerIterConsume(limit, no_ack)
    \/ \E limit \in Limits, no_ack \in NoAckArgs :
          ConsumerSetIterConsume(limit, no_ack)
    \/ \E limit \in Limits : Wait(limit)
    \/ \E i \in 1..MaxGens : Advance(i)
    \/ \E i \in 1..MaxGens : Drain(i)
    \/ EventArrives

SpecDrain == InitDrain /\ [][NextDrain]_vars

(* The lifecycle of the adapters: sends and fetches before and after the   *)
(* closes.                                                                 *)
InitLife ==
    \E channel \in {NoChannel, "chGiven"} :
        InitWith(channel, FALSE, <<>>, <<>>)

NextLife ==
    \/ \E match \in BOOLEAN : Send(match)
    \/ \E cb \in BOOLEAN : Fetch("None", cb)
    \/ PublisherClose
    \/ \E raised \in BOOLEAN : PublisherExit(raised)
    \/ ConsumerClose
    \/ ConsumerSetClose
    \/ \E raised \in BOOLEAN : ConsumerExit(raised)

SpecLife == InitLife /\ [][NextLife]_vars

(* The queue collection of a ConsumerSet. *)
InitSet ==
    \E consumers \in ConsumerArgs, from_dict \in DictArgs :
        InitWith(NoChannel, FALSE, consumers, from_dict)

NextSet ==
    \/ \E names \in ConsumerLists : AddConsumer(names)
    \/ \E name \in QueueNames : AddConsumerFromDict(name)

SpecSet == InitSet /\ [][NextSet]_vars

(* Consumers that register, are revived on other channels and closed. *)
InitChan == InitWith(NoChannel, FALSE, <<<<"A">>, <<"B">>>>, <<>>)

NextChan ==
    \/ ConsumerConsume
    \/ ConsumerSetConsume
    \/ \E channel \in ReviveChannels : ConsumerRevive(channel)
    \/ \E channel \in ReviveChannels : ConsumerSetRevive(channel)
    \/ ConsumerClose
    \/ ConsumerSetClose

SpecChan == InitChan /\ [][NextChan]_vars

(* Construction: a Publisher or a Consumer made with any arguments, the    *)
(* other one with none.                                                    *)
PublisherArgSets ==
    [exchange : StrArgs, exchange_type : StrArgs, routing_key : StrArgs,
     durable : FlagArgs, auto_delete : FlagArgs]

ConsumerArgSets ==
    [queue : StrArgs, exchange : StrArgs, routing_key : StrArgs,
     exchange_type : StrArgs, durable : FlagArgs, exclusive : FlagArgs,
     auto_delete : FlagArgs]

InitMake ==
    \/ \E pargs \in PublisherArgSets :
          InitArgs(NoChannel, pargs, FALSE, NoConsumerArgs, FALSE)
    \/ \E cargs \in ConsumerArgSets :
          InitArgs(NoChannel, NoPublisherArgs, FALSE, cargs, FALSE)

NextMake ==
    \/ PublisherClose
    \/ ConsumerClose

SpecMake == InitMake /\ [][NextMake]_vars

(* Push-mode consumption started with and without a no_ack argument, on    *)
(* adapters of either policy.                                              *)
InitAck ==
    \E no_ack \in BOOLEAN, set_no_ack \in BOOLEAN :
        InitArgs(NoChannel, NoPublisherArgs, no_ack, NoConsumerArgs,
                 set_no_ack)

NextAck ==
    \/ \E limit \in {NoLimit, 1}, no_ack \in NoAckArgs \cup {Omitted} :
          ConsumerIterConsume(limit, no_ack)
    \/ \E limit \in {NoLimit, 1}, no_ack \in NoAckArgs \cup {Omitted} :
          ConsumerSetIterConsume(limit, no_ack)
    \/ \E i \in 1..MaxGens : Advance(i)
    \/ \E i \in 1..MaxGens : Drain(i)
    \/ EventArrives

SpecAck == InitAck /\ [][NextAck]_vars

(* Both kinds of generator run to their ends. *)
InitEnd == InitWith(NoChannel, FALSE, <<<<"A">>, <<"B">>>>, <<>>)

NextEnd ==
    \/ Send(TRUE)
    \/ \E limit \in {NoLimit, 1}, infinite \in BOOLEAN :
          IterQueue(limit, infinite)
    \/ IterQueueNext
    \/ ConsumerIterConsume(1, Omitted)
    \/ Wait(1)
    \/ \E i \in 1..MaxGens : Advance(i)
    \/ \E i \in 1..MaxGens : Drain(i)
    \/ EventArrives

SpecEnd == InitEnd /\ [][NextEnd]_vars

(* Generators made, advanced and let go, one after the other. *)
InitLazy == InitWith(NoChannel, FALSE, <<<<"A">>, <<"B">>>>, <<>>)

NextLazy ==
    \/ \E limit \in Limits : ConsumerIterConsume(limit, Omitted)
    \/ \E limit \in Limits : ConsumerSetIterConsume(limit, Omitted)
    \/ \E i \in 1..MaxGens : Advance(i)
    \/ \E i \in 1..MaxGens : Drain(i)
    \/ \E i \in 1..MaxGens : Discard(i)
    \/ EventArrives

SpecLazy == InitLazy /\ [][NextLazy]_vars

(* wait() alone on a connection that keeps receiving events: list(it)      *)
(* keeps advancing the generator, drain_events returns once an event is    *)
(* pending, and the broker keeps delivering.                               *)
NextWait ==
    \/ \E limit \in Limits : Wait(limit)
    \/ \E i \in 1..MaxGens : Advance(i)
    \/ \E i \in 1..MaxGens : Drain(i)
    \/ EventArrives

InitWait ==
    \E no_ack \in BOOLEAN : InitWith(NoChannel, no_ack, <<<<"A">>, <<"B">>>>, <<>>)

SpecWait ==
    /\ InitWait
    /\ [][NextWait]_vars
    /\ WF_vars(\E i \in 1..MaxGens : Advance(i))
    /\ WF_vars(\E i \in 1..MaxGens : Drain(i))
    /\ WF_vars(EventArrives)

-----------------------------------------------------------------------------
(***************************************************************************)
(* The properties.                                                         *)
(***************************************************************************)

(* C1: a generator of iterconsume (Consumer's or ConsumerSet's) calls      *)
(* consume() at most once and before any drain_events(); one made with a   *)
(* positive limit N that has been iterated to its end has called consume() *)
(* exactly once and drain_events() exactly N times.                        *)
C1_OneConsumeNDrains ==
    \A i \in 1..Len(gens) :
        LET g == gens[i]
        IN  /\ g.consumes <= 1
            /\ g.drains > 0 => g.consumes = 1 /\ g.regAt = 0
            /\ (g.pc = "done" /\ g.err = "" /\ Truthy(g.limit))
                  => g.consumes = 1 /\ g.drains = g.limit

C1_Witness ==
    \E i \in 1..Len(gens) :
        /\ gens[i].owner = "ConsumerSet"
        /\ gens[i].limit = MaxLimit
        /\ gens[i].pc = "done"
        /\ gens[i].drains = MaxLimit
        /\ gens[i].consumes = 1

(* The messages a generator of iterqueue could have been given: the ones   *)
(* in the queue when it was made and the ones published since.             *)
Offered(g) == (g.base + 1)..(nextMsg - 1)

(* C2: a generator iterqueue(limit=N, infinite=False), N > 0, over M        *)
(* offered messages has yielded at most N and at most M items, all of them *)
(* messages, in queue order (ascending ids); its first fetch that returns  *)
(* no message ends it, and when it ended having yielded fewer than N its   *)
(* last fetch was that one.                                                *)
C2_IterQueueAtMostMin ==
    (iq.pc # "none" /\ ~iq.infinite /\ Truthy(iq.limit)) =>
        /\ Len(iq.yielded) <= iq.limit
        /\ Len(iq.yielded) <= Cardinality(Offered(iq))
        /\ \A k \in 1..Len(iq.yielded) : iq.yielded[k] \in Offered(iq)
        /\ \A k \in 1..Len(iq.yielded), l \in 1..Len(iq.yielded) :
              k < l => iq.yielded[k] < iq.yielded[l]
        /\ iq.empties <= 1
        /\ iq.empties = 1 => iq.pc = "done" /\ iq.lastItem = None
        /\ (iq.pc = "done" /\ iq.err = "" /\ Len(iq.yielded) < iq.limit)
              => iq.empties = 1 /\ iq.lastItem = None

C2_Witness ==
    /\ iq.pc = "done"
    /\ ~iq.infinite
    /\ iq.limit = MaxLimit
    /\ Len(iq.yielded) = MaxLimit - 1
    /\ Cardinality(Offered(iq)) = MaxLimit - 1
    /\ iq.empties = 1

(* C3: a generator iterqueue(infinite=True), or one made by iterating the  *)
(* Consumer, does not end on a fetch that returned no message: it ends     *)
(* only with a positive limit N, having yielded exactly N items (None      *)
(* among them when the queue ran dry); without a limit it does not end.    *)
C3_InfiniteEndsOnlyByLimit ==
    /\ (iq.pc = "done" /\ iq.infinite /\ iq.err = "")
          => Truthy(iq.limit) /\ Len(iq.yielded) = iq.limit
    /\ (iq.infinite /\ ~Truthy(iq.limit) /\ iq.err = "") => iq.pc # "done"
    /\ iq.via = "__iter__"
          => iq.infinite /\ (iq.err = "" => iq.pc # "done")
    /\ (iq.infinite /\ iq.pc # "none")
          => Len(iq.yielded) >= iq.empties - 1

C3_Witness ==
    /\ iq.pc = "done"
    /\ iq.infinite
    /\ iq.limit = MaxLimit
    /\ Len(iq.yielded) = MaxLimit
    /\ iq.yielded[MaxLimit] = None
    /\ iq.empties >= 2

(* wait(limit=N) is running as the i-th generator / has returned.  The     *)
(* list it returns holds the events in the order they left the connection  *)
(* when each element is the event that followed the one before it.         *)
WaitRunning(i, N) ==
    /\ Len(gens) = i
    /\ gens[i].inWait
    /\ gens[i].limit = N
    /\ gens[i].pc # "done"

WaitReturned(i, N) ==
    /\ Len(gens) = i
    /\ gens[i].inWait
    /\ gens[i].limit = N
    /\ gens[i].pc = "done"
    /\ last.op = "wait"
    /\ last.err = ""

InDrainOrder(results) ==
    \A k \in 1..(Len(results) - 1) : results[k + 1] = results[k] + 1

(* C4: on a connection that keeps having events, every wait(limit=N) with  *)
(* N > 0 returns, and what it returns is a list of exactly N drained       *)
(* results in the order they were drained.                                 *)
C4_WaitReturnsNResults ==
    \A i \in 1..MaxGens, N \in 1..MaxLimit :
        /\ WaitRunning(i, N) ~> WaitReturned(i, N)
        /\ [](WaitReturned(i, N) =>
                /\ Len(waitRes) = N
                /\ waitRes = gens[i].out
                /\ gens[i].drains = N
                /\ InDrainOrder(waitRes))

C4_Witness ==
    /\ WaitReturned(MaxGens, MaxLimit)
    /\ Len(waitRes) = MaxLimit
    /\ waitRes[MaxLimit] = MaxLimit

(* C5: the channel a caller supplied to the Publisher is never closed by   *)
(* it, whatever sends, closes and scope exits have been made.              *)
C5_ProvidedChannelStaysOpen ==
    pub.provided => pub.channel = "chGiven" /\ ChannelOpen(pub.channel)

C5_Witness ==
    /\ pub.provided
    /\ pub.closed
    /\ last.op = "Publisher.__exit__"
    /\ ChannelOpen(pub.channel)
    /\ Len(queue) > 0

(* C6: once a Publisher made without a supplied channel has been closed    *)
(* (by close() or by a scope exit, any number of times), exactly one       *)
(* close has been issued on its channel.                                   *)
C6_OwnChannelClosedOnce ==
    (~pub.provided /\ pub.closed) => closes[pub.channel] = 1

(* C7: a call made on a closed adapter is rejected or changes nothing at   *)
(* the broker: a send after Publisher.close publishes nothing, a fetch or  *)
(* an iterqueue step after Consumer.close removes nothing, and a closed    *)
(* Consumer or ConsumerSet has no consumer registered.                     *)
C7_ClosedAdapterInert ==
    /\ (pub.closed /\ last.op = "send")
          => last.err # "" \/ queue = last.pre
    /\ (con.closed /\ last.op \in {"fetch", "next"})
          => last.err # "" \/ queue = last.pre
    /\ con.closed => con.tags = 0
    /\ cset.closed => cset.tags = 0

(* C8: a fetch on an open channel makes one retrieval at the head of the   *)
(* queue: from an empty queue it returns None, raises nothing and leaves   *)
(* the queue empty; otherwise it returns the head and leaves the rest, so  *)
(* a fetch right after the only message was published returns it and the  *)
(* next fetch returns None.                                                *)
C8_FetchTakesHead ==
    (last.op = "fetch" /\ ChannelOpen(con.channel)) =>
        /\ last.err = ""
        /\ last.pre = <<>> => last.ret = None /\ queue = <<>>
        /\ last.pre # <<>> => last.ret = Head(last.pre) /\ queue = Tail(last.pre)
        /\ Len(last.pre) = 1 => QueueGet(queue).msg = None

C8_Witness ==
    /\ last.op = "fetch"
    /\ Len(last.pre) = 1
    /\ last.ret = nextMsg - 1
    /\ last.ret # None
    /\ queue = <<>>

(* C9: discard_all with a filter raises the unsupported-operation error    *)
(* and leaves the bound queue as it was.                                   *)
C9_FilterRejected ==
    last.op = "discard_all_filter" =>
        last.err = "NotImplementedError" /\ queue = last.pre

C9_Witness ==
    /\ last.op = "discard_all_filter"
    /\ last.err = "NotImplementedError"
    /\ Len(queue) >= 2

(* The names of a list of queues, and the names a list of calls brought. *)
Names(queues) == [k \in 1..Len(queues) |-> queues[k].name]

RECURSIVE Flatten(_)
Flatten(lists) ==
    IF lists = <<>> THEN <<>> ELSE Head(lists) \o Flatten(Tail(lists))

(* C10: the queues of a ConsumerSet are, in this order and with            *)
(* repetitions kept, those of the consumers given at construction, the     *)
(* from_dict entries, and whatever add_consumer / add_consumer_from_dict   *)
(* added since; built from consumers on A and on B it holds [A, B], and    *)
(* [A, B, C] after add_consumer_from_dict("C").                            *)
C10_QueuesInInsertionOrder ==
    /\ Names(cset.queues) = Flatten(cset.calls)
    /\ cset.calls = <<<<"A">>, <<"B">>, <<>>>>
          => Names(cset.queues) = <<"A", "B">>
    /\ cset.calls = <<<<"A">>, <<"B">>, <<>>, <<"C">>>>
          => Names(cset.queues) = <<"A", "B", "C">>

C10_Witness ==
    /\ cset.calls = <<<<"A">>, <<"B">>, <<>>, <<"C">>>>
    /\ last.op = "add_consumer_from_dict"
    /\ Len(cset.queues) = 3

-----------------------------------------------------------------------------
CloseSteps == <<"cancel", "channel.close", "_closed">>

(***************************************************************************)
(* C11.  Consumer.close() cancels the consumption first, then closes the   *)
(* channel, then sets the closed flag, and it completes without an error   *)
(* whether it had registrations to cancel or none.  The one error it can   *)
(* meet comes from its first step: cancelling registrations on a channel   *)
(* that another adapter sharing it has closed already.                     *)
(***************************************************************************)
C11_CloseCancelsThenCloses ==
    last.op = "Consumer.close" =>
        IF last.err = ""
        THEN /\ con.steps = CloseSteps
             /\ con.tags = 0
             /\ con.closed
             /\ closes[con.backend] >= 1
        ELSE /\ last.err = "ChannelError"
             /\ con.steps = <<"cancel">>
             /\ con.tags > 0
             /\ closes[con.channel] >= 1

(* A close() that had registrations to cancel, and went through. *)
C11_Witness ==
    /\ last.op = "Consumer.close"
    /\ last.err = ""
    /\ con.cancelled > 0
    /\ con.steps = CloseSteps

(***************************************************************************)
(* C12.  After every revive(channel) of a Consumer or of a ConsumerSet,    *)
(* backend and the base consumer's channel are the channel of that call,   *)
(* and at any time they are the channel most recently given; the revive    *)
(* leaves the queues as they were; and a close() that goes through closes  *)
(* that most recent channel and no other.                                  *)
(***************************************************************************)
C12_ReviveRebinds ==
    /\ [](/\ con.backend = con.given
          /\ con.channel = con.given
          /\ cset.backend = cset.given
          /\ cset.channel = cset.given)
    /\ [][/\ last'.op = "Consumer.revive" =>
               /\ con'.backend = last'.arg
               /\ con'.channel = last'.arg
               /\ con'.fields = con.fields
          /\ last'.op = "ConsumerSet.revive" =>
               /\ cset'.backend = last'.arg
               /\ cset'.channel = last'.arg
               /\ cset'.queues = cset.queues
          /\ (last'.op = "Consumer.close" /\ last'.err = "") =>
               closes' = [closes EXCEPT ![con.given] = @ + 1]
          /\ (last'.op = "ConsumerSet.close" /\ last'.err = "") =>
               closes' = [closes EXCEPT ![cset.given] = @ + 1]]_vars

(* A Consumer revived on one channel and then on another, closed: the      *)
(* second channel is closed, the first and the original are not.           *)
C12_Witness ==
    /\ last.op = "Consumer.close"
    /\ last.err = ""
    /\ con.given = "chNew2"
    /\ cset.given = "chNew"
    /\ closes["chNew2"] = 1
    /\ closes["chNew"] = 0
    /\ closes["chCon"] = 0

(***************************************************************************)
(* C13.  Leaving the scope of a Publisher or of a Consumer runs close()    *)
(* once: the adapter is marked closed and its channel gets one close (none *)
(* for a channel the Publisher was given), the same whether the body       *)
(* completed or raised; and the caller sees an error exactly when the body *)
(* raised one.                                                             *)
(***************************************************************************)
C13_ScopeExitClosesOnce ==
    /\ [](last.op = "Publisher.__exit__" =>
            /\ pub.closed
            /\ (last.arg = "raised") <=> (last.err = "BodyError")
            /\ last.err \in {"", "BodyError"})
    /\ [](last.op = "Consumer.__exit__" =>
            /\ con.closed
            /\ con.steps = CloseSteps
            /\ (last.arg = "raised") <=> (last.err = "BodyError")
            /\ last.err \in {"", "BodyError"})
    /\ [][/\ last'.op = "Publisher.__exit__" =>
               closes' = [closes EXCEPT ![pub.channel] =
                                 @ + IF pub.provided THEN 0 ELSE 1]
          /\ last'.op = "Consumer.__exit__" =>
               closes' = [closes EXCEPT ![con.backend] = @ + 1]]_vars

(* The body of a Consumer's scope raised: the Consumer is closed, its      *)
(* channel closed once, and the error is with the caller.                  *)
C13_Witness ==
    /\ last.op = "Consumer.__exit__"
    /\ last.arg = "raised"
    /\ last.err = "BodyError"
    /\ con.closed
    /\ closes[con.backend] = 1

(***************************************************************************)
(* C14.  An iterconsume generator made without a no_ack argument, by a     *)
(* Consumer or by a ConsumerSet, registers with the no_ack policy of the   *)
(* adapter it was made by.                                                 *)
(***************************************************************************)
C14_OmittedNoAckIsOwnPolicy ==
    \A i \in 1..Len(gens) :
        (gens[i].omitted /\ gens[i].consumes > 0) =>
            gens[i].ack = Bool3(OwnerPolicy(gens[i].owner))

(***************************************************************************)
(* C15.  As first stated: every field a Publisher or a Consumer is left    *)
(* with is the argument when the argument is not None, and the class       *)
(* default when it is None.                                                *)
(***************************************************************************)
FollowsNotNone(args, fields, defaults) ==
    \A f \in DOMAIN defaults :
        fields[f] = IF args[f] # "None" THEN args[f] ELSE defaults[f]

C15_FieldsFollowNotNone ==
    /\ FollowsNotNone(pub.args, pub.fields, PublisherDefaults)
    /\ FollowsNotNone(con.args, con.fields, ConsumerDefaults)

(***************************************************************************)
(* C15, amended.  The flags durable, exclusive and auto_delete are the     *)
(* argument when it is not None and the class default when it is None; the *)
(* strings exchange, exchange_type, routing_key and queue are the argument *)
(* when it is true (not None and not empty) and the class default          *)
(* otherwise.                                                              *)
(***************************************************************************)
FlagFields == {"durable", "exclusive", "auto_delete"}

FollowsTruth(args, fields, defaults) ==
    \A f \in DOMAIN defaults :
        fields[f] = IF f \in FlagFields
                    THEN (IF args[f] # "None" THEN args[f] ELSE defaults[f])
                    ELSE (IF args[f] \notin {"None", ""} THEN args[f]
                                                         ELSE defaults[f])

C15_FieldsFollowTruth ==
    /\ FollowsTruth(pub.args, pub.fields, PublisherDefaults)
    /\ FollowsTruth(con.args, con.fields, ConsumerDefaults)

(* A Publisher made with an empty exchange type and with durable False,    *)
(* and closed since: the type is the default, the flag is the argument.    *)
C15_Witness ==
    /\ pub.args.exchange_type = ""
    /\ pub.fields.exchange_type = "direct"
    /\ pub.args.durable = "False"
    /\ pub.fields.durable = "False"
    /\ pub.args.routing_key = "x"
    /\ pub.fields.routing_key = "x"
    /\ pub.closed

(***************************************************************************)
(* C16.  A fetch dispatches the message to the callbacks once when         *)
(* enable_callbacks is set and a message was there, and not at all         *)
(* otherwise; what it returns is the head of the queue, or None, the same  *)
(* with and without callbacks.                                             *)
(***************************************************************************)
C16_CallbackIffEnabledAndMessage ==
    (last.op = "fetch" /\ last.err = "") =>
        /\ last.cb = IF last.arg = "callbacks" /\ last.pre # <<>>
                     THEN 1 ELSE 0
        /\ last.ret = IF last.pre = <<>> THEN None ELSE Head(last.pre)

C16_Witness ==
    /\ last.op = "fetch"
    /\ last.arg = "callbacks"
    /\ last.cb = 1
    /\ last.ret # None
    /\ last.ret = Head(last.pre)

(***************************************************************************)
(* C17.  An iterconsume generator that has ended had a limit other than    *)
(* None and 0, had taken limit steps, and had drained limit events, none   *)
(* after its last step.  One made with limit None or 0 never ends: each of *)
(* its steps goes into another drain.                                      *)
(***************************************************************************)
Unbounded(g) == g.limit = NoLimit \/ g.limit = 0

C17_EndsOnlyAtLimit ==
    \A i \in 1..Len(gens) :
        LET g == gens[i]
        IN  /\ (g.pc = "done" /\ g.err = "") =>
                  /\ ~Unbounded(g)
                  /\ g.iteration = g.limit
                  /\ g.drains = g.limit
            /\ (Unbounded(g) /\ g.err = "") =>
                  /\ g.pc # "done"
                  /\ g.pc = "draining" => g.drains = g.iteration
                  /\ g.pc = "yielded" => g.drains = g.iteration + 1

(* A generator made with limit 0 that has drained more than one event. *)
C17_Witness ==
    \E i \in 1..Len(gens) :
        /\ gens[i].limit = 0
        /\ gens[i].drains > 1
        /\ gens[i].pc = "yielded"

(***************************************************************************)
(* C18.  However an iterqueue or iterconsume generator ends, at its limit  *)
(* or on an empty fetch, the one who iterates it sees the end of the       *)
(* sequence and no error: next() raises StopIteration and nothing else, a  *)
(* loop or list() over it finishes, and wait(limit=N) returns its N        *)
(* results.                                                                *)
(***************************************************************************)
C18_EndIsOrdinary ==
    /\ last.op = "next" => ListError(last.err) = ""
    /\ last.op = "wait" => last.err \in {"", "running"}
    /\ (last.op = "wait" /\ last.err = "") =>
           /\ gens[Len(gens)].pc = "done"
           /\ Len(waitRes) = gens[Len(gens)].limit
    /\ iq.err = ""
    /\ \A i \in 1..Len(gens) : gens[i].err = ""

(* An iterqueue generator has ended, and after it wait(limit=1) has        *)
(* returned.                                                               *)
C18_Witness ==
    /\ iq.pc = "done"
    /\ last.op = "wait"
    /\ last.err = ""
    /\ Len(waitRes) = 1

(***************************************************************************)
(* C19.  An iterqueue(limit=N) generator that has ended at its limit has   *)
(* yielded N items and fetched N+1 times; when its last fetch found a      *)
(* message in the queue, that message has left the queue and was not       *)
(* yielded.                                                                *)
(***************************************************************************)
EndedAtLimit(g) ==
    /\ g.pc = "done"
    /\ g.err = ""
    /\ g.limit > 0
    /\ g.n >= g.limit

C19_FetchBeforeLimitTest ==
    EndedAtLimit(iq) =>
        /\ iq.n = iq.limit
        /\ Len(iq.yielded) = iq.limit
        /\ iq.fetches = iq.limit + 1
        /\ (last.op = "next" /\ last.pre # <<>>) =>
               /\ iq.lastItem = Head(last.pre)
               /\ queue = Tail(last.pre)
               /\ \A k \in 1..Len(iq.yielded) : iq.yielded[k] # iq.lastItem
               /\ \A k \in 1..Len(queue) : queue[k] # iq.lastItem

(* The queue held more than N messages: the generator ended at its limit   *)
(* of 2 and its third fetch took a message.                                *)
C19_Witness ==
    /\ EndedAtLimit(iq)
    /\ iq.limit = 2
    /\ last.op = "next"
    /\ last.pre # <<>>
    /\ iq.lastItem # None
    /\ iq.fetches = 3

(***************************************************************************)
(* C20.  A generator that iterconsume has made and nobody has advanced has *)
(* registered nothing and drained nothing; one that has been advanced has  *)
(* registered once, before any drain; and each adapter holds as many       *)
(* registrations as generators of its own have been advanced.              *)
(***************************************************************************)
Advanced(owner) ==
    {i \in 1..Len(gens) : gens[i].owner = owner /\ gens[i].pc # "new"}

C20_RegistersAtFirstAdvance ==
    /\ \A i \in 1..Len(gens) :
          LET g == gens[i]
          IN  /\ g.pc = "new" => (g.consumes = 0 /\ g.drains = 0)
              /\ g.pc # "new" => (g.consumes = 1 /\ g.regAt = 0)
    /\ con.tags = con.iters
    /\ cset.tags = cset.iters
    /\ Cardinality(Advanced("Consumer")) <= con.tags
    /\ Cardinality(Advanced("ConsumerSet")) <= cset.tags

(* Two generators of the Consumer advanced, one after the other, and a     *)
(* third made and not advanced: two registrations.                         *)
C20_Witness ==
    /\ con.iters = 2
    /\ con.tags = 2
    /\ \E i \in 1..Len(gens) :
          gens[i].owner = "Consumer" /\ gens[i].pc = "new"

=============================================================================
